---- MODULE Spec2Model ----
(***************************************************************************)
(* Model of scripts/src/ecosystem_scripts/validate_registry.py: the        *)
(* validators (LinkChecker, GitHubUserValidator, PyPIValidator,            *)
(* CondaValidator, CRANValidator), validate_packages, make_output and main.*)
(* External services are modelled by the response each request receives,   *)
(* drawn nondeterministically at the point the request is made.            *)
(***************************************************************************)
EXTENDS Naturals, Sequences, FiniteSets, TLC

\* ---------------------------------------------------------------- bounds
NumPkgs == 2        \* package directories in the registry
NumUrls == 2        \* distinct URLs the meta.yaml files may declare
NumUsers == 2       \* distinct GitHub logins the meta.yaml files may declare
MaxExtras == 1      \* what one meta.yaml holds beyond the two required keys
MaxFaults == 1      \* checks of one run that the environment lets fail
MaxCalls == 2       \* method calls made on the validators in SpecValidators
MaxRepos == 2       \* entries of the list filter_repos is called with

\* ------------------------------------------------------- program constants
IMAGE_SIZE == 512
OK == 200           \* httpx.codes.OK
NOT_FOUND == 404    \* httpx.codes.NOT_FOUND
SERVER_ERROR == 500 \* some status that is neither OK nor NOT_FOUND

\* ------------------------------------------------------------ input sets
AllUrls == <<"https://a.example", "https://b.example", "https://c.example">>
AllUsers == <<"alice", "bob", "carol">>
URLs == {AllUrls[i] : i \in 1..NumUrls}
Users == {AllUsers[i] : i \in 1..NumUsers}
PkgIds == 1..NumPkgs            \* directory names, in their sort order
NoField == "<absent>"           \* key not present in the mapping
PyPINames == {"scanpy"}
\* A Conda spec is kept as its pieces: the text between separators and the
\* separators "::" themselves; <<>> is the empty string.
CondaSpecs == {<<"conda-forge", "::", "scanpy">>, <<"scanpy">>}
\* The specs validate_package is called with when the validator is exercised
\* on its own: also one with a second separator.
CondaArguments == CondaSpecs \cup {<<"bioconda", "::", "r", "::", "base">>}
CRANNames == {"Seurat"}
PkgNames == <<"pkg-a", "pkg-b", "pkg-c", "pkg-d">>   \* PkgNames[i] is directory i
\* A path is the sequence of its components; <<>> stands for no path.
LogoPaths == {<<"icon.png">>, <<"img", "icon.png">>}
\* What the registry holds at a logo path: nothing, or a file with a suffix
\* and, for a raster image, the size PIL reports.
ImageFile(exists, suffix, width, height) ==
    [exists |-> exists, suffix |-> suffix, width |-> width, height |-> height]
ImageFiles == {ImageFile(FALSE, ".png", 0, 0), ImageFile(TRUE, ".png", 512, 300),
               ImageFile(TRUE, ".png", 600, 512)}
\* The files check_image is called on when it is exercised on its own: a
\* missing one, raster images of every size around the bounding box, and
\* vector images, for which PIL is never asked (their size is what a viewer
\* would render).
Sizes == {1, 300, 511, 512, 513, 600}
ImageArguments ==
    {ImageFile(FALSE, x, 0, 0) : x \in {".png", ".svg"}}
      \cup {ImageFile(TRUE, ".png", w, h) : w \in Sizes, h \in Sizes}
      \cup {ImageFile(TRUE, ".svg", w, w) : w \in {300, 600}}
NoImage == ImageFile(FALSE, "", 0, 0)

\* What a request can come back with: a status code, or an exception raised
\* by httpx (timeout, connection failure).
RAISES == "httpx.HTTPError"
Statuses == {OK, NOT_FOUND, SERVER_ERROR}
HeadResponses == {[raised |-> FALSE, status_code |-> s] : s \in Statuses}
                   \cup {[raised |-> TRUE, status_code |-> 0]}
\* The GraphQL reply additionally carries an "errors" member or not.
GraphQLResponses == {[raised |-> FALSE, status_code |-> s, errors |-> e] :
                        s \in {OK, SERVER_ERROR}, e \in BOOLEAN}
                      \cup {[raised |-> TRUE, status_code |-> 0, errors |-> FALSE]}

\* ------------------------------------------------------ ValidationError
\* The message of a ValidationError, kept as the parts it is formatted from.
\* arg: a URL or package name, users: GitHub logins, spec: a Conda spec,
\* path: an image path, status: the status code the message quotes.
ValidationError(kind, context, arg, users, status, spec, path) ==
    [kind |-> kind, context |-> context, arg |-> arg, users |-> users,
     status |-> status, spec |-> spec, path |-> path]
None == ValidationError("None", 0, "", {}, 0, <<>>, <<>>)

\* ErrorList.append: ignores None, appends anything else.
ErrorListAppend(list, object) ==
    IF object = None THEN list ELSE Append(list, object)

\* The value a validator method hands back: its return value, the new value
\* of the instance's set, the requests it sent, and whether the request raised.
Outcome(ret, set, sent, raised) ==
    [ret |-> ret, set |-> set, sent |-> sent, raised |-> raised]

\* ---------------------------------------------------------- LinkChecker
\* Variant: the URL is not remembered after a successful probe.
check_and_register_NoRegister(known_links, url, context, response) ==
    IF url \in known_links
    THEN Outcome(ValidationError("DuplicateLink", context, url, {}, 0, <<>>, <<>>), known_links, <<>>, FALSE)
    ELSE IF response.raised
    THEN Outcome(None, known_links, <<url>>, TRUE)
    ELSE IF response.status_code # OK
    THEN Outcome(ValidationError("UnreachableLink", 0, url, {}, response.status_code, <<>>, <<>>),
                 known_links, <<url>>, FALSE)
    ELSE Outcome(None, known_links, <<url>>, FALSE)

\* Variant: the URL is remembered as soon as it was probed, whatever the reply.
check_and_register_RegistersFirst(known_links, url, context, response) ==
    IF url \in known_links
    THEN Outcome(ValidationError("DuplicateLink", context, url, {}, 0, <<>>, <<>>), known_links, <<>>, FALSE)
    ELSE IF response.raised
    THEN Outcome(None, known_links, <<url>>, TRUE)
    ELSE IF response.status_code # OK
    THEN Outcome(ValidationError("UnreachableLink", 0, url, {}, response.status_code, <<>>, <<>>),
                 known_links \cup {url}, <<url>>, FALSE)
    ELSE Outcome(None, known_links \cup {url}, <<url>>, FALSE)

check_and_register(known_links, url, context, response) ==
    IF url \in known_links
    THEN Outcome(ValidationError("DuplicateLink", context, url, {}, 0, <<>>, <<>>), known_links, <<>>, FALSE)
    ELSE IF response.raised
    THEN Outcome(None, known_links, <<url>>, TRUE)
    ELSE IF response.status_code # OK
    THEN Outcome(ValidationError("UnreachableLink", 0, url, {}, response.status_code, <<>>, <<>>),
                 known_links, <<url>>, FALSE)
    ELSE Outcome(None, known_links \cup {url}, <<url>>, FALSE)

\* -------------------------------------------------- GitHubUserValidator
\* Variant: the batch is marked validated before the reply is inspected.
validate_usernames_MarksBeforeReply(validated_users, usernames, context, response) ==
    LET unvalidated == usernames \ validated_users IN
    IF unvalidated = {}
    THEN Outcome(None, validated_users, <<>>, FALSE)
    ELSE IF response.raised
    THEN Outcome(None, validated_users, <<unvalidated>>, TRUE)
    ELSE IF response.status_code # OK
    THEN Outcome(ValidationError("GitHubCheckFailed", context, "", unvalidated, response.status_code, <<>>, <<>>),
                 validated_users \cup unvalidated, <<unvalidated>>, FALSE)
    ELSE IF response.errors
    THEN Outcome(ValidationError("GitHubErrors", context, "", unvalidated, 0, <<>>, <<>>),
                 validated_users \cup unvalidated, <<unvalidated>>, FALSE)
    ELSE Outcome(None, validated_users \cup unvalidated, <<unvalidated>>, FALSE)

\* Variant: the query asks for every given login, validated already or not.
validate_usernames_QueriesAll(validated_users, usernames, context, response) ==
    IF usernames \ validated_users = {}
    THEN Outcome(None, validated_users, <<>>, FALSE)
    ELSE IF response.raised
    THEN Outcome(None, validated_users, <<usernames>>, TRUE)
    ELSE IF response.status_code # OK
    THEN Outcome(ValidationError("GitHubCheckFailed", context, "", usernames, response.status_code, <<>>, <<>>),
                 validated_users, <<usernames>>, FALSE)
    ELSE IF response.errors
    THEN Outcome(ValidationError("GitHubErrors", context, "", usernames, 0, <<>>, <<>>),
                 validated_users, <<usernames>>, FALSE)
    ELSE Outcome(None, validated_users \cup usernames, <<usernames>>, FALSE)

validate_usernames(validated_users, usernames, context, response) ==
    LET unvalidated == usernames \ validated_users IN
    IF unvalidated = {}
    THEN Outcome(None, validated_users, <<>>, FALSE)
    ELSE IF response.raised
    THEN Outcome(None, validated_users, <<unvalidated>>, TRUE)
    ELSE IF response.status_code # OK
    THEN Outcome(ValidationError("GitHubCheckFailed", context, "", unvalidated, response.status_code, <<>>, <<>>),
                 validated_users, <<unvalidated>>, FALSE)
    ELSE IF response.errors
    THEN Outcome(ValidationError("GitHubErrors", context, "", unvalidated, 0, <<>>, <<>>),
                 validated_users, <<unvalidated>>, FALSE)
    ELSE Outcome(None, validated_users \cup unvalidated, <<unvalidated>>, FALSE)

\* -------------------------------------------------------- PyPIValidator
\* Variant: the status is compared with OK before it is compared with NOT_FOUND.
PyPI_validate_package_TestsSwapped(validated_packages, package_name, context, response) ==
    IF package_name \in validated_packages
    THEN Outcome(None, validated_packages, <<>>, FALSE)
    ELSE IF response.raised
    THEN Outcome(None, validated_packages, <<package_name>>, TRUE)
    ELSE IF response.status_code # OK
    THEN Outcome(ValidationError("PyPICheckFailed", context, package_name, {}, response.status_code, <<>>, <<>>),
                 validated_packages, <<package_name>>, FALSE)
    ELSE Outcome(None, validated_packages \cup {package_name}, <<package_name>>, FALSE)

PyPI_validate_package(validated_packages, package_name, context, response) ==
    IF package_name \in validated_packages
    THEN Outcome(None, validated_packages, <<>>, FALSE)
    ELSE IF response.raised
    THEN Outcome(None, validated_packages, <<package_name>>, TRUE)
    ELSE IF response.status_code = NOT_FOUND
    THEN Outcome(ValidationError("PyPINotFound", context, package_name, {}, 0, <<>>, <<>>),
                 validated_packages, <<package_name>>, FALSE)
    ELSE IF response.status_code # OK
    THEN Outcome(ValidationError("PyPICheckFailed", context, package_name, {}, response.status_code, <<>>, <<>>),
                 validated_packages, <<package_name>>, FALSE)
    ELSE Outcome(None, validated_packages \cup {package_name}, <<package_name>>, FALSE)

\* ------------------------------------------------------- CondaValidator
HasSeparator(package_spec) == \E i \in 1..Len(package_spec) : package_spec[i] = "::"
FirstSeparator(package_spec) ==
    CHOOSE i \in 1..Len(package_spec) :
        package_spec[i] = "::" /\ \A j \in 1..(i - 1) : package_spec[j] # "::"
\* Variant: package_spec.rsplit("::", 1)
LastSeparator(package_spec) ==
    CHOOSE i \in 1..Len(package_spec) :
        package_spec[i] = "::" /\ \A j \in (i + 1)..Len(package_spec) : package_spec[j] # "::"
SplitOnce_FromTheRight(package_spec) ==
    LET i == LastSeparator(package_spec) IN
    [channel |-> SubSeq(package_spec, 1, i - 1),
     package_name |-> SubSeq(package_spec, i + 1, Len(package_spec))]
\* package_spec.split("::", 1)
SplitOnce(package_spec) ==
    LET i == FirstSeparator(package_spec) IN
    [channel |-> SubSeq(package_spec, 1, i - 1),
     package_name |-> SubSeq(package_spec, i + 1, Len(package_spec))]

Conda_validate_package(validated_packages, package_spec, context, response) ==
    IF package_spec \in validated_packages
    THEN Outcome(None, validated_packages, <<>>, FALSE)
    ELSE IF ~HasSeparator(package_spec)
    THEN Outcome(ValidationError("CondaMalformed", context, "", {}, 0, package_spec, <<>>),
                 validated_packages, <<>>, FALSE)
    ELSE LET parts == SplitOnce(package_spec) IN
    IF response.raised
    THEN Outcome(None, validated_packages, <<parts>>, TRUE)
    ELSE IF response.status_code = NOT_FOUND
    THEN Outcome(ValidationError("CondaNotFound", context, "", {}, 0, package_spec, <<>>),
                 validated_packages, <<parts>>, FALSE)
    ELSE IF response.status_code # OK
    THEN Outcome(ValidationError("CondaCheckFailed", context, "", {}, response.status_code, package_spec, <<>>),
                 validated_packages, <<parts>>, FALSE)
    ELSE Outcome(None, validated_packages \cup {package_spec}, <<parts>>, FALSE)

\* -------------------------------------------------------- CRANValidator
\* Variant: the name is remembered whatever the reply.
CRAN_validate_package_CachesFirst(validated_packages, package_name, context, response) ==
    IF package_name \in validated_packages
    THEN Outcome(None, validated_packages, <<>>, FALSE)
    ELSE IF response.raised
    THEN Outcome(None, validated_packages, <<package_name>>, TRUE)
    ELSE IF response.status_code = NOT_FOUND
    THEN Outcome(ValidationError("CRANNotFound", context, package_name, {}, 0, <<>>, <<>>),
                 validated_packages \cup {package_name}, <<package_name>>, FALSE)
    ELSE IF response.status_code # OK
    THEN Outcome(ValidationError("CRANCheckFailed", context, package_name, {}, response.status_code, <<>>, <<>>),
                 validated_packages \cup {package_name}, <<package_name>>, FALSE)
    ELSE Outcome(None, validated_packages \cup {package_name}, <<package_name>>, FALSE)

CRAN_validate_package(validated_packages, package_name, context, response) ==
    IF package_name \in validated_packages
    THEN Outcome(None, validated_packages, <<>>, FALSE)
    ELSE IF response.raised
    THEN Outcome(None, validated_packages, <<package_name>>, TRUE)
    ELSE IF response.status_code = NOT_FOUND
    THEN Outcome(ValidationError("CRANNotFound", context, package_name, {}, 0, <<>>, <<>>),
                 validated_packages, <<package_name>>, FALSE)
    ELSE IF response.status_code # OK
    THEN Outcome(ValidationError("CRANCheckFailed", context, package_name, {}, response.status_code, <<>>, <<>>),
                 validated_packages, <<package_name>>, FALSE)
    ELSE Outcome(None, validated_packages \cup {package_name}, <<package_name>>, FALSE)

\* ---------------------------------------------------------- check_image
\* Variant: any image inside the bounding box is accepted.
check_image_AnyFit(img_path, img) ==
    IF ~img.exists
    THEN ValidationError("ImageMissing", 0, "", {}, 0, <<>>, img_path)
    ELSE IF img.suffix = ".svg"
    THEN None
    ELSE IF ~(img.width <= IMAGE_SIZE /\ img.height <= IMAGE_SIZE)
    THEN ValidationError("ImageConstraintViolated", 0, "", {}, 0, <<>>, img_path)
    ELSE None

check_image(img_path, img) ==
    IF ~img.exists
    THEN ValidationError("ImageMissing", 0, "", {}, 0, <<>>, img_path)
    ELSE IF img.suffix = ".svg"
    THEN None
    ELSE IF ~((img.width = IMAGE_SIZE /\ img.height <= IMAGE_SIZE)
              \/ (img.width <= IMAGE_SIZE /\ img.height = IMAGE_SIZE))
    THEN ValidationError("ImageConstraintViolated", 0, "", {}, 0, <<>>, img_path)
    ELSE None

\* ------------------------------------------------------------- meta.yaml
\* What yaml.load returns for one meta.yaml.  A key that is missing holds
\* NoField (a string), {} (contact) or <<>> (conda, logo).  schema_rest is
\* whether everything else in the file conforms to schema.json.
Records ==
    [project_home : URLs \cup {NoField},
     documentation_home : URLs \cup {NoField},
     tutorials_home : URLs \cup {NoField},
     contact : SUBSET Users,
     pypi : PyPINames \cup {NoField},
     conda : CondaSpecs \cup {<<>>},
     cran : CRANNames \cup {NoField},
     logo : LogoPaths \cup {<<>>},
     schema_rest : BOOLEAN]
\* How much a file holds beyond the required keys: its optional keys, and
\* one more if something else in it violates the schema.
Extras(r) ==
    (IF r.tutorials_home # NoField THEN 1 ELSE 0) + (IF r.contact # {} THEN 1 ELSE 0)
    + (IF r.pypi # NoField THEN 1 ELSE 0) + (IF r.conda # <<>> THEN 1 ELSE 0)
    + (IF r.cran # NoField THEN 1 ELSE 0) + (IF r.logo # <<>> THEN 1 ELSE 0)
    + (IF r.schema_rest THEN 0 ELSE 1)
MetaFiles == {r \in Records : Extras(r) <= MaxExtras}
NoRecord == [project_home |-> NoField, documentation_home |-> NoField,
             tutorials_home |-> NoField, contact |-> {}, pypi |-> NoField,
             conda |-> <<>>, cran |-> NoField, logo |-> <<>>, schema_rest |-> TRUE]

\* jsonschema.validate(tmp_meta, schema): project_home and documentation_home
\* are required.
SchemaValid(tmp_meta) ==
    /\ tmp_meta.project_home # NoField
    /\ tmp_meta.documentation_home # NoField
    /\ tmp_meta.schema_rest
SchemaViolation == ValidationError("SchemaViolation", 0, "", {}, 0, <<>>, <<>>)

\* A meta.yaml file rglob finds: the name of the directory that holds it
\* (a number, in the order of the names) and how deep under the registry
\* directory it sits: 1 for <registry>/<name>/meta.yaml, 2 for
\* <registry>/<other>/<name>/meta.yaml.
MetaYaml(name, depth) == [name |-> name, depth |-> depth]

\* sorted(..., key=lambda x: x.parent.name): insertion into a sorted
\* sequence, behind the elements with an equal key (the sort is stable)
RECURSIVE SortedInsert(_, _)
SortedInsert(seq, x) ==
    IF seq = <<>> THEN <<x>>
    ELSE IF x.name < Head(seq).name THEN <<x>> \o seq
    ELSE <<Head(seq)>> \o SortedInsert(Tail(seq), x)
RECURSIVE sorted(_)
sorted(seq) ==
    IF seq = <<>> THEN <<>>
    ELSE SortedInsert(sorted(SubSeq(seq, 1, Len(seq) - 1)), seq[Len(seq)])


\* ======================================================== program state
VARIABLES
    pc,                     \* where main / validate_packages stands
    exc,                    \* the exception that ended the run, or "none"
    argv,                   \* the parsed command line
    disk,                   \* the output root: whether it exists, what is in it
    stdout,                 \* the documents written to sys.stdout
    files,                  \* meta.yaml files still to be visited, sorted
    pkg_id, tmp_meta,       \* loop variables of validate_packages
    link_checker_home, link_checker_docs, link_checker_tutorials,  \* known_links
    github_validator,       \* validated_users
    pypi_validator, conda_validator, cran_validator,               \* validated_packages
    errors,                 \* package id -> ErrorList
    package_metadata,       \* records appended so far
    make_output_calls,      \* how often make_output was entered
    calls,                  \* log of the validator calls made and what each sent
    faults,                 \* failures the environment has produced so far
    repos,                  \* filter_repos: the list it was called with
    known_urls,             \* filter_repos: the URLs of that list at entry
    filtered_repos,         \* filter_repos: the list being built
    checked,                \* filter_repos: how many of repos the loop has done
    lookups                 \* log: each entry as passed in and what GitHub said

vars == <<pc, exc, argv, disk, stdout, files, pkg_id, tmp_meta,
          link_checker_home, link_checker_docs, link_checker_tutorials,
          github_validator, pypi_validator, conda_validator, cran_validator,
          errors, package_metadata, make_output_calls, calls, faults,
          repos, known_urls, filtered_repos, checked, lookups>>

validators == <<link_checker_home, link_checker_docs, link_checker_tutorials,
                github_validator, pypi_validator, conda_validator, cran_validator>>
output == <<disk, stdout, make_output_calls>>
loopvars == <<files, pkg_id, tmp_meta>>
template == <<repos, known_urls, filtered_repos, checked, lookups>>

\* register-template-repos is a program of its own: while validate-registry
\* runs, its variables are empty.
NoTemplateRun ==
    /\ repos = <<>> /\ known_urls = {} /\ filtered_repos = <<>>
    /\ checked = 0 /\ lookups = <<>>

\* One log entry per validator call: which validator, the arguments, the
\* requests it sent (0 or 1), the logins a GitHub query asked for, the
\* channel and package a Conda request asked for, the file check_image found
\* at the path (filled in by the logo check), the reply
\* the request got, the result, and whether the request raised.
NoReply == [raised |-> FALSE, status_code |-> 0, errors |-> FALSE]
NoTarget == [channel |-> <<>>, package_name |-> <<>>]
Call(validator, context, arg, users, spec, response, out) ==
    [validator |-> validator, context |-> context, arg |-> arg, users |-> users,
     spec |-> spec, requests |-> Len(out.sent),
     query |-> IF validator = "github" /\ out.sent # <<>> THEN out.sent[1] ELSE {},
     target |-> IF validator = "conda" /\ out.sent # <<>> THEN out.sent[1] ELSE NoTarget,
     img |-> NoImage,
     reply |-> IF out.sent = <<>> THEN NoReply
               ELSE [raised |-> response.raised, status_code |-> response.status_code,
                     errors |-> validator = "github" /\ response.errors],
     ret |-> out.ret, raised |-> out.raised]

Init ==
    /\ pc = "main"
    /\ exc = "none"
    /\ argv \in [outdir : BOOLEAN, registry_is_dir : BOOLEAN]
    /\ disk \in [exists : BOOLEAN, entries : {{}}, json : {<<>>}]
    /\ stdout = <<>>
    /\ files = <<>>
    /\ pkg_id = 0
    /\ tmp_meta = NoRecord
    /\ link_checker_home = {} /\ link_checker_docs = {} /\ link_checker_tutorials = {}
    /\ github_validator = {}
    /\ pypi_validator = {} /\ conda_validator = {} /\ cran_validator = {}
    /\ errors = <<>>
    /\ package_metadata = <<>>
    /\ make_output_calls = 0
    /\ calls = <<>>
    /\ faults = 0
    /\ NoTemplateRun

\* The replies the environment may still give: any, until MaxFaults failures
\* have been produced, and then only the good one.
Replies(all, good) == IF faults < MaxFaults THEN all ELSE good
HeadOK == {r \in HeadResponses : ~r.raised /\ r.status_code = OK}
GraphQLOK == {r \in GraphQLResponses : ~r.raised /\ r.status_code = OK /\ ~r.errors}
ImageOK == {img \in ImageFiles : img.exists /\ img.width = 512 /\ img.height = 300}
Count(out) ==
    faults' = IF out.sent # <<>> /\ (out.raised \/ out.ret # None) THEN faults + 1 ELSE faults

Raise(name) == pc' = "raised" /\ exc' = name

\* The registries: up to NumPkgs meta.yaml files whose directory names are
\* 1..k for some k.  A name held by one file is a directory right under the
\* registry directory; two files can sit in directories of the same name
\* (packages/x and packages/old/x), one of them deeper.
Registries ==
    {found \in SUBSET {MetaYaml(n, d) : n \in PkgIds, d \in 1..2} :
        /\ Cardinality(found) <= NumPkgs
        /\ \E k \in 0..NumPkgs : {f.name : f \in found} = 1..k
        /\ \A f \in found : f.depth = 2 => MetaYaml(f.name, 1) \in found}
\* The orders rglob may report the files of a registry in.
Orders(found) ==
    {order \in [1..Cardinality(found) -> found] : {order[i] : i \in DOMAIN order} = found}
Discoveries == UNION {Orders(found) : found \in Registries}

\* main, lines 377-388, and validate_packages up to the loop, lines 257-273
Main ==
    /\ pc = "main"
    /\ IF ~argv.registry_is_dir
       THEN Raise("ValueError") /\ UNCHANGED <<disk, files>>
       ELSE IF argv.outdir /\ disk.exists
       THEN Raise("FileExistsError") /\ UNCHANGED <<disk, files>>
       ELSE /\ disk' = IF argv.outdir THEN [disk EXCEPT !.exists = TRUE] ELSE disk
            /\ \E order \in Discoveries : files' = sorted(order)
            /\ pc' = "loop" /\ exc' = exc
    /\ UNCHANGED <<argv, template, stdout, pkg_id, tmp_meta, validators, errors,
                   package_metadata, make_output_calls, calls, faults>>

\* A check that sends nothing (schema, image) is logged like a validator call.
Local(ret) == Outcome(ret, {}, <<>>, FALSE)

\* lines 273-283: next file, errors[pkg_id] comes into being (defaultdict),
\* the file is read and validated against the schema
\* Variant: pkg_errors = ErrorList() in place of errors[pkg_id].
NextPackage_FreshList ==
    /\ pc = "loop" /\ files # <<>>
    /\ pkg_id' = Head(files).name
    /\ files' = Tail(files)
    /\ \E meta \in MetaFiles :
         LET ret == IF SchemaValid(meta) THEN None ELSE SchemaViolation
             id == Head(files).name
             pkg_errors == <<>> IN
         /\ tmp_meta' = meta
         /\ errors' = [p \in DOMAIN errors \cup {id} |->
                          IF p = id THEN ErrorListAppend(pkg_errors, ret) ELSE errors[p]]
         /\ calls' = Append(calls, Call("schema", id, "", {}, <<>>, NoReply, Local(ret)))
    /\ pc' = "home"
    /\ UNCHANGED <<exc, argv, template, validators, output, package_metadata, faults>>

\* lines 273-283: the next file, its key in errors, the schema check
NextPackage ==
    /\ pc = "loop" /\ files # <<>>
    /\ pkg_id' = Head(files).name
    /\ files' = Tail(files)
    /\ \E meta \in MetaFiles :
         LET ret == IF SchemaValid(meta) THEN None ELSE SchemaViolation
             id == Head(files).name
             pkg_errors == IF id \in DOMAIN errors THEN errors[id] ELSE <<>> IN
         /\ tmp_meta' = meta
         /\ errors' = [p \in DOMAIN errors \cup {id} |->
                          IF p = id THEN ErrorListAppend(pkg_errors, ret) ELSE errors[p]]
         /\ calls' = Append(calls, Call("schema", id, "", {}, <<>>, NoReply, Local(ret)))
    /\ pc' = "home"
    /\ UNCHANGED <<exc, argv, template, validators, output, package_metadata, faults>>

\* The conditions of lines 288-305 that decide which optional checks run:
\* the first stage from position k on whose key the record holds.
Stages == <<"tutorials", "contact", "pypi", "conda", "cran", "logo", "append">>
Applies(meta, stage) ==
    CASE stage = "tutorials" -> meta.tutorials_home # NoField
      [] stage = "contact" -> meta.contact # {}
      [] stage = "pypi" -> meta.pypi # NoField
      [] stage = "conda" -> meta.conda # <<>>
      [] stage = "cran" -> meta.cran # NoField
      [] stage = "logo" -> meta.logo # <<>>
      [] OTHER -> TRUE
RECURSIVE NextStage(_, _)
NextStage(meta, k) ==
    IF Applies(meta, Stages[k]) THEN Stages[k] ELSE NextStage(meta, k + 1)

\* pkg_errors.append(<validator call>): the call is logged; if its request
\* raised, the exception leaves validate_packages, otherwise the return value
\* goes through ErrorList.append and the loop body moves on.
AppendResult(out, entry, next) ==
    /\ calls' = Append(calls, entry)
    /\ Count(out)
    /\ IF out.raised
       THEN Raise(RAISES) /\ UNCHANGED errors
       ELSE /\ errors' = [errors EXCEPT ![pkg_id] = ErrorListAppend(@, out.ret)]
            /\ pc' = next /\ exc' = exc

\* line 286
CheckProjectHome ==
    /\ pc = "home"
    /\ IF tmp_meta.project_home = NoField
       THEN Raise("KeyError") /\ UNCHANGED <<errors, calls, faults, link_checker_home>>
       ELSE \E response \in Replies(HeadResponses, HeadOK) :
            LET out == check_and_register(link_checker_home, tmp_meta.project_home,
                                          pkg_id, response) IN
            /\ link_checker_home' = out.set
            /\ AppendResult(out, Call("home", pkg_id, tmp_meta.project_home, {}, <<>>,
                                      response, out), "docs")
    /\ UNCHANGED <<argv, template, loopvars, link_checker_docs, link_checker_tutorials,
                   github_validator, pypi_validator, conda_validator, cran_validator,
                   output, package_metadata>>

\* Variant: documentation links go through the checker of the project links.
CheckDocumentationHome_SharedChecker ==
    /\ pc = "docs"
    /\ IF tmp_meta.documentation_home = NoField
       THEN Raise("KeyError") /\ UNCHANGED <<errors, calls, faults, link_checker_home>>
       ELSE \E response \in Replies(HeadResponses, HeadOK) :
            LET out == check_and_register(link_checker_home, tmp_meta.documentation_home,
                                          pkg_id, response) IN
            /\ link_checker_home' = out.set
            /\ AppendResult(out, Call("docs", pkg_id, tmp_meta.documentation_home, {}, <<>>,
                                      response, out), NextStage(tmp_meta, 1))
    /\ UNCHANGED <<argv, template, loopvars, link_checker_docs, link_checker_tutorials,
                   github_validator, pypi_validator, conda_validator, cran_validator,
                   output, package_metadata>>

\* line 287
CheckDocumentationHome ==
    /\ pc = "docs"
    /\ IF tmp_meta.documentation_home = NoField
       THEN Raise("KeyError") /\ UNCHANGED <<errors, calls, faults, link_checker_docs>>
       ELSE \E response \in Replies(HeadResponses, HeadOK) :
            LET out == check_and_register(link_checker_docs, tmp_meta.documentation_home,
                                          pkg_id, response) IN
            /\ link_checker_docs' = out.set
            /\ AppendResult(out, Call("docs", pkg_id, tmp_meta.documentation_home, {}, <<>>,
                                      response, out), NextStage(tmp_meta, 1))
    /\ UNCHANGED <<argv, template, loopvars, link_checker_home, link_checker_tutorials,
                   github_validator, pypi_validator, conda_validator, cran_validator,
                   output, package_metadata>>

\* lines 288-289
CheckTutorialsHome ==
    /\ pc = "tutorials"
    /\ \E response \in Replies(HeadResponses, HeadOK) :
         LET out == check_and_register(link_checker_tutorials, tmp_meta.tutorials_home,
                                       pkg_id, response) IN
         /\ link_checker_tutorials' = out.set
         /\ AppendResult(out, Call("tutorials", pkg_id, tmp_meta.tutorials_home, {}, <<>>,
                                   response, out), NextStage(tmp_meta, 2))
    /\ UNCHANGED <<argv, template, loopvars, link_checker_home, link_checker_docs,
                   github_validator, pypi_validator, conda_validator, cran_validator,
                   output, package_metadata>>

\* lines 292-293
CheckContact ==
    /\ pc = "contact"
    /\ \E response \in Replies(GraphQLResponses, GraphQLOK) :
         LET out == validate_usernames(github_validator, tmp_meta.contact, pkg_id, response) IN
         /\ github_validator' = out.set
         /\ AppendResult(out, Call("github", pkg_id, "", tmp_meta.contact, <<>>, response, out),
                         NextStage(tmp_meta, 3))
    /\ UNCHANGED <<argv, template, loopvars, link_checker_home, link_checker_docs, link_checker_tutorials,
                   pypi_validator, conda_validator, cran_validator, output, package_metadata>>

\* lines 296-298
CheckPyPI ==
    /\ pc = "pypi"
    /\ \E response \in Replies(HeadResponses, HeadOK) :
         LET out == PyPI_validate_package(pypi_validator, tmp_meta.pypi, pkg_id, response) IN
         /\ pypi_validator' = out.set
         /\ AppendResult(out, Call("pypi", pkg_id, tmp_meta.pypi, {}, <<>>, response, out),
                         NextStage(tmp_meta, 4))
    /\ UNCHANGED <<argv, template, loopvars, link_checker_home, link_checker_docs, link_checker_tutorials,
                   github_validator, conda_validator, cran_validator, output, package_metadata>>

\* lines 299-300
CheckConda ==
    /\ pc = "conda"
    /\ \E response \in Replies(HeadResponses, HeadOK) :
         LET out == Conda_validate_package(conda_validator, tmp_meta.conda, pkg_id, response) IN
         /\ conda_validator' = out.set
         /\ AppendResult(out, Call("conda", pkg_id, "", {}, tmp_meta.conda, response, out),
                         NextStage(tmp_meta, 5))
    /\ UNCHANGED <<argv, template, loopvars, link_checker_home, link_checker_docs, link_checker_tutorials,
                   github_validator, pypi_validator, cran_validator, output, package_metadata>>

\* lines 301-302
CheckCRAN ==
    /\ pc = "cran"
    /\ \E response \in Replies(HeadResponses, HeadOK) :
         LET out == CRAN_validate_package(cran_validator, tmp_meta.cran, pkg_id, response) IN
         /\ cran_validator' = out.set
         /\ AppendResult(out, Call("cran", pkg_id, tmp_meta.cran, {}, <<>>, response, out),
                         NextStage(tmp_meta, 6))
    /\ UNCHANGED <<argv, template, loopvars, link_checker_home, link_checker_docs, link_checker_tutorials,
                   github_validator, pypi_validator, conda_validator, output, package_metadata>>

\* lines 305-308: the logo check and the rewrite of tmp_meta["logo"]
registry_dir == <<"packages">>
CheckLogo ==
    /\ pc = "logo"
    /\ \E img \in Replies(ImageFiles, ImageOK) :
         LET img_path == registry_dir \o <<PkgNames[pkg_id]>> \o tmp_meta.logo
             ret == check_image(img_path, img) IN
         /\ errors' = [errors EXCEPT ![pkg_id] = ErrorListAppend(@, ret)]
         /\ calls' = Append(calls, [Call("logo", pkg_id, "", {}, <<>>, NoReply, Local(ret))
                                       EXCEPT !.img = img])
         /\ faults' = IF ret # None THEN faults + 1 ELSE faults
         /\ tmp_meta' = [tmp_meta EXCEPT !.logo = img_path]
    /\ pc' = "append"
    /\ UNCHANGED <<exc, argv, template, files, pkg_id, validators, output, package_metadata>>

\* line 310
AppendMetadata ==
    /\ pc = "append"
    /\ package_metadata' = Append(package_metadata, tmp_meta)
    /\ pc' = "loop"
    /\ UNCHANGED <<exc, argv, template, loopvars, validators, output, errors, calls, faults>>

\* ---------------------------------------------------------- make_output
\* The loop of lines 331-341 over the records still to do.  entries is what
\* exists under outdir; broken is the position of the record whose asset
\* shutil.copy cannot copy (0: every copy succeeds).  The result tells which
\* exception ended the loop, if any.
RECURSIVE make_output_loop(_, _, _, _, _)
make_output_loop(packages, outdir, entries, packages_rel, broken) ==
    IF packages = <<>>
    THEN [raised |-> FALSE, exc |-> "none", entries |-> entries, packages_rel |-> packages_rel]
    ELSE LET pkg == Head(packages) IN
         IF pkg.logo = <<>>
         THEN make_output_loop(Tail(packages), outdir, entries, Append(packages_rel, pkg), broken)
         ELSE LET img_srcpath == pkg.logo
                  n == Len(img_srcpath)
                  img_localpath == <<img_srcpath[n - 1], img_srcpath[n]>>
                  pkg_rel == [pkg EXCEPT !.logo = img_localpath] IN
              IF ~outdir
              THEN make_output_loop(Tail(packages), outdir, entries,
                                    Append(packages_rel, pkg_rel), broken)
              ELSE IF <<img_localpath[1]>> \in entries
              THEN [raised |-> TRUE, exc |-> "FileExistsError",
                    entries |-> entries, packages_rel |-> packages_rel]
              ELSE IF broken = Len(packages_rel) + 1
              THEN [raised |-> TRUE, exc |-> "OSError",
                    entries |-> entries \cup {<<img_localpath[1]>>},
                    packages_rel |-> packages_rel]
              ELSE make_output_loop(Tail(packages), outdir,
                                    entries \cup {<<img_localpath[1]>>, img_localpath},
                                    Append(packages_rel, pkg_rel), broken)
\* The records whose asset make_output copies, by position.
Copied == IF argv.outdir
          THEN {i \in 1..Len(package_metadata) : package_metadata[i].logo # <<>>}
          ELSE {}

\* any(errors.values())
AnyErrors == \E p \in DOMAIN errors : errors[p] # <<>>
\* Variant: all(errors.values()) in place of any(errors.values()).
Return_AllInsteadOfAny ==
    /\ pc = "loop" /\ files = <<>>
    /\ IF DOMAIN errors # {} /\ \A p \in DOMAIN errors : errors[p] # <<>>
       THEN pc' = "exit" /\ exc' = "SystemExit(1)"
       ELSE pc' = "make_output" /\ exc' = exc
    /\ UNCHANGED <<argv, template, loopvars, validators, output, errors, package_metadata, calls, faults>>

\* line 312 and main, lines 388-392: validate_packages returns, main branches
Return ==
    /\ pc = "loop" /\ files = <<>>
    /\ IF AnyErrors
       THEN pc' = "exit" /\ exc' = "SystemExit(1)"
       ELSE pc' = "make_output" /\ exc' = exc
    /\ UNCHANGED <<argv, template, loopvars, validators, output, errors, package_metadata, calls, faults>>

\* Variant: directories that exist before the call are accepted
\* (mkdir(exist_ok=True) for what an earlier run left).
MakeOutput_AcceptsExisting ==
    /\ pc = "make_output"
    /\ make_output_calls' = make_output_calls + 1
    /\ \E broken \in {0} \cup Copied :
       LET r == make_output_loop(package_metadata, argv.outdir, {}, <<>>, broken) IN
       IF r.raised
       THEN /\ Raise(r.exc)
            /\ disk' = [disk EXCEPT !.entries = r.entries]
            /\ stdout' = stdout
       ELSE /\ pc' = "exit" /\ exc' = exc
            /\ IF argv.outdir
               THEN /\ disk' = [disk EXCEPT !.entries = r.entries \cup {<<"packages.json">>},
                                            !.json = <<r.packages_rel>>]
                    /\ stdout' = stdout
               ELSE /\ stdout' = Append(stdout, r.packages_rel)
                    /\ disk' = disk
    /\ UNCHANGED <<argv, template, loopvars, validators, errors, package_metadata, calls, faults>>

\* Variant: packages.json is written before the assets are copied.
MakeOutput_WritesJsonFirst ==
    /\ pc = "make_output"
    /\ make_output_calls' = make_output_calls + 1
    /\ \E broken \in {0} \cup Copied :
       LET r == make_output_loop(package_metadata, argv.outdir, disk.entries, <<>>, broken)
           json == make_output_loop(package_metadata, FALSE, {}, <<>>, 0).packages_rel IN
       /\ IF r.raised THEN Raise(r.exc) ELSE pc' = "exit" /\ exc' = exc
       /\ IF argv.outdir
          THEN /\ disk' = [disk EXCEPT !.entries = r.entries \cup {<<"packages.json">>},
                                       !.json = <<json>>]
               /\ stdout' = stdout
          ELSE /\ stdout' = Append(stdout, json)
               /\ disk' = disk
    /\ UNCHANGED <<argv, template, loopvars, validators, errors, package_metadata, calls, faults>>

\* main, line 394, and make_output, lines 330-347
MakeOutput ==
    /\ pc = "make_output"
    /\ make_output_calls' = make_output_calls + 1
    /\ \E broken \in {0} \cup Copied :
       LET r == make_output_loop(package_metadata, argv.outdir, disk.entries, <<>>, broken) IN
       IF r.raised
       THEN /\ Raise(r.exc)
            /\ disk' = [disk EXCEPT !.entries = r.entries]
            /\ stdout' = stdout
       ELSE /\ pc' = "exit" /\ exc' = exc
            /\ IF argv.outdir
               THEN /\ disk' = [disk EXCEPT !.entries = r.entries \cup {<<"packages.json">>},
                                            !.json = <<r.packages_rel>>]
                    /\ stdout' = stdout
               ELSE /\ stdout' = Append(stdout, r.packages_rel)
                    /\ disk' = disk
    /\ UNCHANGED <<argv, template, loopvars, validators, errors, package_metadata, calls, faults>>

Next ==
    \/ Main
    \/ NextPackage
    \/ CheckProjectHome
    \/ CheckDocumentationHome
    \/ CheckTutorialsHome
    \/ CheckContact
    \/ CheckPyPI
    \/ CheckConda
    \/ CheckCRAN
    \/ CheckLogo
    \/ AppendMetadata
    \/ Return
    \/ MakeOutput

Spec == Init /\ [][Next]_vars

\* ================================================ the validators alone
\* One instance of each validator class, called with any argument in any
\* order, each request getting any reply.  A request that raises leaves the
\* instance as it was and the caller goes on.  Every call is made on behalf
\* of another package: its context is the number of the call.
InitValidators ==
    /\ pc = "validators"
    /\ exc = "none"
    /\ argv = [outdir |-> FALSE, registry_is_dir |-> TRUE]
    /\ disk = [exists |-> FALSE, entries |-> {}, json |-> <<>>]
    /\ stdout = <<>>
    /\ files = <<>>
    /\ pkg_id = 0
    /\ tmp_meta = NoRecord
    /\ link_checker_home = {} /\ link_checker_docs = {} /\ link_checker_tutorials = {}
    /\ github_validator = {}
    /\ pypi_validator = {} /\ conda_validator = {} /\ cran_validator = {}
    /\ errors = <<>>
    /\ package_metadata = <<>>
    /\ make_output_calls = 0
    /\ calls = <<>>
    /\ faults = 0
    /\ NoTemplateRun

CanCall == pc = "validators" /\ Len(calls) < MaxCalls
caller == Len(calls) + 1
Rest == <<pc, exc, argv, template, loopvars, output, errors, package_metadata, faults,
          link_checker_docs, link_checker_tutorials>>

CallLinkChecker ==
    /\ CanCall
    /\ \E url \in URLs, response \in HeadResponses :
         LET out == check_and_register(link_checker_home, url, caller, response) IN
         /\ link_checker_home' = out.set
         /\ calls' = Append(calls, Call("home", caller, url, {}, <<>>, response, out))
    /\ UNCHANGED <<Rest, github_validator, pypi_validator, conda_validator, cran_validator>>

CallGitHubUserValidator ==
    /\ CanCall
    /\ \E usernames \in SUBSET Users, response \in GraphQLResponses :
         LET out == validate_usernames(github_validator, usernames, caller, response) IN
         /\ github_validator' = out.set
         /\ calls' = Append(calls, Call("github", caller, "", usernames, <<>>, response, out))
    /\ UNCHANGED <<Rest, link_checker_home, pypi_validator, conda_validator, cran_validator>>

CallPyPIValidator ==
    /\ CanCall
    /\ \E package_name \in PyPINames, response \in HeadResponses :
         LET out == PyPI_validate_package(pypi_validator, package_name, caller, response) IN
         /\ pypi_validator' = out.set
         /\ calls' = Append(calls, Call("pypi", caller, package_name, {}, <<>>, response, out))
    /\ UNCHANGED <<Rest, link_checker_home, github_validator, conda_validator, cran_validator>>

CallCondaValidator ==
    /\ CanCall
    /\ \E package_spec \in CondaArguments, response \in HeadResponses :
         LET out == Conda_validate_package(conda_validator, package_spec, caller, response) IN
         /\ conda_validator' = out.set
         /\ calls' = Append(calls, Call("conda", caller, "", {}, package_spec, response, out))
    /\ UNCHANGED <<Rest, link_checker_home, github_validator, pypi_validator, cran_validator>>

CallCRANValidator ==
    /\ CanCall
    /\ \E package_name \in CRANNames, response \in HeadResponses :
         LET out == CRAN_validate_package(cran_validator, package_name, caller, response) IN
         /\ cran_validator' = out.set
         /\ calls' = Append(calls, Call("cran", caller, package_name, {}, <<>>, response, out))
    /\ UNCHANGED <<Rest, link_checker_home, github_validator, pypi_validator, conda_validator>>

NextValidators ==
    \/ CallLinkChecker
    \/ CallGitHubUserValidator
    \/ CallPyPIValidator
    \/ CallCondaValidator
    \/ CallCRANValidator

SpecValidators == InitValidators /\ [][NextValidators]_vars

\* ================================================== check_image alone
\* check_image called on the logo of one package after another, the file
\* at the path being any of ImageArguments.
InitImage ==
    /\ pc = "check_image"
    /\ exc = "none"
    /\ argv = [outdir |-> FALSE, registry_is_dir |-> TRUE]
    /\ disk = [exists |-> FALSE, entries |-> {}, json |-> <<>>]
    /\ stdout = <<>>
    /\ files = <<>>
    /\ pkg_id = 0
    /\ tmp_meta = NoRecord
    /\ link_checker_home = {} /\ link_checker_docs = {} /\ link_checker_tutorials = {}
    /\ github_validator = {}
    /\ pypi_validator = {} /\ conda_validator = {} /\ cran_validator = {}
    /\ errors = <<>>
    /\ package_metadata = <<>>
    /\ make_output_calls = 0
    /\ calls = <<>>
    /\ faults = 0
    /\ NoTemplateRun

CallCheckImage ==
    /\ pc = "check_image" /\ Len(calls) < MaxCalls
    /\ \E logo \in LogoPaths, img \in ImageArguments :
         LET img_path == registry_dir \o <<PkgNames[caller]>> \o logo
             ret == check_image(img_path, img) IN
         calls' = Append(calls, [Call("logo", caller, "", {}, <<>>, NoReply, Local(ret))
                                   EXCEPT !.img = img])
    /\ UNCHANGED <<Rest, validators>>

NextImage == CallCheckImage

SpecImage == InitImage /\ [][NextImage]_vars

\* ================================================== make_output alone
\* make_output called with any records validate_packages can hand over (up
\* to NumPkgs of them, a logo beside meta.yaml or one directory deeper, or
\* none) and an output root in which an earlier run may have left asset
\* directories.
ValidatedLogos ==
    {<<>>} \cup {registry_dir \o <<PkgNames[p]>> \o logo : p \in PkgIds, logo \in LogoPaths}
ValidatedRecords ==
    {[NoRecord EXCEPT !.project_home = AllUrls[1], !.documentation_home = AllUrls[1],
                      !.logo = logo] : logo \in ValidatedLogos}
LeftBehind == {<<PkgNames[p]>> : p \in PkgIds} \cup {<<"img">>}
InitMakeOutput ==
    /\ pc = "make_output"
    /\ exc = "none"
    /\ argv \in [outdir : BOOLEAN, registry_is_dir : {TRUE}]
    /\ disk \in [exists : {TRUE}, entries : SUBSET LeftBehind, json : {<<>>}]
    /\ stdout = <<>>
    /\ files = <<>>
    /\ pkg_id = 0
    /\ tmp_meta = NoRecord
    /\ link_checker_home = {} /\ link_checker_docs = {} /\ link_checker_tutorials = {}
    /\ github_validator = {}
    /\ pypi_validator = {} /\ conda_validator = {} /\ cran_validator = {}
    /\ errors = <<>>
    /\ package_metadata \in UNION {[1..n -> ValidatedRecords] : n \in 0..NumPkgs}
    /\ make_output_calls = 0
    /\ calls = <<>>
    /\ faults = 0
    /\ NoTemplateRun

NextMakeOutput == MakeOutput

SpecMakeOutput == InitMakeOutput /\ [][NextMakeOutput]_vars

\* ===================================== template_repo_registry.filter_repos
github_url_prefix == "https://github.com/"
\* A URL is kept as the prefix it starts with and the rest.
Url(prefix, repo_name) == [prefix |-> prefix, repo_name |-> repo_name]
GitHubUrls == {Url(github_url_prefix, n) : n \in {"scverse/a", "scverse/b", "scverse/c"}}
RepoUrls == GitHubUrls \cup {Url("https://gitlab.com/", "scverse/a")}
\* An entry of template-repos.yml: url, and skip where the entry has one.
Repo(url, skip) == [url |-> url, skip |-> skip]
Repos == {Repo(url, skip) : url \in RepoUrls, skip \in {NoField, "true"}}

\* What GitHub says about a repository name: get_repo raises (GithubException
\* or its subclass UnknownObjectException), or returns a repository with
\* archived and html_url, for which get_contents(".cruft.json") returns the
\* file, raises UnknownObjectException or raises another GithubException.
GitHubRepo(found, archived, html_url, contents) ==
    [found |-> found, archived |-> archived, html_url |-> html_url, contents |-> contents]
NoUrl == Url("", "")
GitHubAnswers ==
    {GitHubRepo(FALSE, FALSE, NoUrl, "")}
      \cup {GitHubRepo(TRUE, TRUE, NoUrl, "")}
      \cup {GitHubRepo(TRUE, FALSE, h, c) :
               h \in GitHubUrls, c \in {"file", "UnknownObjectException", "GithubException"}}

\* The log entry of an iteration that raised before it asked GitHub.
Unasked == GitHubRepo(FALSE, FALSE, NoUrl, "")

\* One iteration of the loop, lines 82-116, for the entry repo: whether the
\* entry is appended, the entry as the iteration leaves it (line 107 assigns
\* to the dict that is also in the caller's list), and the exception raised.
Iteration(keep, repo, raised) == [keep |-> keep, repo |-> repo, raised |-> raised]
\* Variant: line 107 missing, a moved repository keeps the URL it was listed with.
filter_repo_KeepsOldUrl(repo, known, gh_repo) ==
    LET url == repo.url IN
    IF url.prefix # github_url_prefix
    THEN Iteration(FALSE, repo, "AssertionError")
    ELSE IF ~gh_repo.found
    THEN Iteration(FALSE, repo, "none")
    ELSE IF gh_repo.archived
    THEN Iteration(FALSE, repo, "none")
    ELSE IF gh_repo.html_url # url /\ gh_repo.html_url \in known
    THEN Iteration(FALSE, repo, "none")
    ELSE IF gh_repo.contents = "UnknownObjectException"
         THEN Iteration(FALSE, repo, "none")
         ELSE IF gh_repo.contents = "GithubException"
         THEN Iteration(FALSE, repo, "GithubException")
         ELSE Iteration(TRUE, repo, "none")

filter_repo(repo, known, gh_repo) ==
    LET url == repo.url IN
    IF url.prefix # github_url_prefix
    THEN Iteration(FALSE, repo, "AssertionError")
    ELSE IF ~gh_repo.found
    THEN Iteration(FALSE, repo, "none")
    ELSE IF gh_repo.archived
    THEN Iteration(FALSE, repo, "none")
    ELSE IF gh_repo.html_url # url /\ gh_repo.html_url \in known
    THEN Iteration(FALSE, repo, "none")
    ELSE LET moved == IF gh_repo.html_url # url
                      THEN [repo EXCEPT !.url = gh_repo.html_url] ELSE repo IN
         IF gh_repo.contents = "UnknownObjectException"
         THEN Iteration(FALSE, moved, "none")
         ELSE IF gh_repo.contents = "GithubException"
         THEN Iteration(FALSE, moved, "GithubException")
         ELSE Iteration(TRUE, moved, "none")

\* filter_repos is called with any list of up to MaxRepos entries.
InitFilterRepos ==
    /\ pc = "filter_repos"
    /\ exc = "none"
    /\ argv = [outdir |-> FALSE, registry_is_dir |-> TRUE]
    /\ disk = [exists |-> FALSE, entries |-> {}, json |-> <<>>]
    /\ stdout = <<>>
    /\ files = <<>>
    /\ pkg_id = 0
    /\ tmp_meta = NoRecord
    /\ link_checker_home = {} /\ link_checker_docs = {} /\ link_checker_tutorials = {}
    /\ github_validator = {}
    /\ pypi_validator = {} /\ conda_validator = {} /\ cran_validator = {}
    /\ errors = <<>>
    /\ package_metadata = <<>>
    /\ make_output_calls = 0
    /\ calls = <<>>
    /\ faults = 0
    /\ repos \in UNION {[1..n -> Repos] : n \in 0..MaxRepos}
    /\ known_urls = {}
    /\ filtered_repos = <<>>
    /\ checked = 0
    /\ lookups = <<>>

Registry == <<argv, loopvars, validators, output, errors, package_metadata, calls, faults>>

\* lines 77-79
EnterFilterRepos ==
    /\ pc = "filter_repos"
    /\ known_urls' = {repos[i].url : i \in DOMAIN repos}
    /\ pc' = "for repo in repos"
    /\ UNCHANGED <<exc, Registry, repos, filtered_repos, checked, lookups>>

\* lines 81-116: the next entry of the list
CheckRepo ==
    /\ pc = "for repo in repos" /\ checked < Len(repos)
    /\ \E gh_repo \in IF repos[checked + 1].url.prefix = github_url_prefix
                        THEN GitHubAnswers ELSE {Unasked} :
         LET repo == repos[checked + 1]
             r == filter_repo(repo, known_urls, gh_repo) IN
         /\ lookups' = Append(lookups, [repo |-> repo, gh_repo |-> gh_repo])
         /\ repos' = [repos EXCEPT ![checked + 1] = r.repo]
         /\ filtered_repos' = IF r.keep THEN Append(filtered_repos, r.repo) ELSE filtered_repos
         /\ IF r.raised # "none"
            THEN Raise(r.raised)
            ELSE pc' = pc /\ exc' = exc
    /\ checked' = checked + 1
    /\ UNCHANGED <<Registry, known_urls>>

\* line 118
ReturnFiltered ==
    /\ pc = "for repo in repos" /\ checked = Len(repos)
    /\ pc' = "returned"
    /\ UNCHANGED <<exc, Registry, template>>

NextFilterRepos ==
    \/ EnterFilterRepos
    \/ CheckRepo
    \/ ReturnFiltered

SpecFilterRepos == InitFilterRepos /\ [][NextFilterRepos]_vars

\* ================================================================ claims
Last(seq) == seq[Len(seq)]
LinkCheckers == {"home", "docs", "tutorials"}
NameValidators == {"pypi", "conda", "cran"}
\* A call that sent its request, got a reply and returned no error.
Succeeded(c) == c.requests = 1 /\ ~c.raised /\ c.ret = None
\* Two calls on the same instance with the same identifier.
SameTarget(c, d) == c.validator = d.validator /\ c.arg = d.arg /\ c.spec = d.spec
\* The non-None results logged for package p, oldest first.
RECURSIVE FailedResults(_, _)
FailedResults(log, p) ==
    IF log = <<>> THEN <<>>
    ELSE LET c == Last(log)
             before == FailedResults(SubSeq(log, 1, Len(log) - 1), p) IN
         IF c.context = p /\ c.ret # None /\ ~c.raised THEN Append(before, c.ret) ELSE before
\* The checks logged for the record being processed: those since its schema check.
CurrentChecks ==
    LET start == CHOOSE i \in 1..Len(calls) :
                    calls[i].validator = "schema"
                    /\ \A j \in (i + 1)..Len(calls) : calls[j].validator # "schema" IN
    {calls[j].validator : j \in start..Len(calls)}
ApplicableChecks(meta) ==
    {"schema", "home", "docs"}
    \cup (IF meta.tutorials_home # NoField THEN {"tutorials"} ELSE {})
    \cup (IF meta.contact # {} THEN {"github"} ELSE {})
    \cup (IF meta.pypi # NoField THEN {"pypi"} ELSE {})
    \cup (IF meta.conda # <<>> THEN {"conda"} ELSE {})
    \cup (IF meta.cran # NoField THEN {"cran"} ELSE {})
    \cup (IF meta.logo # <<>> THEN {"logo"} ELSE {})

\* C1: in validate_packages every applicable check of every package is run
\* whatever failed before, each package's error list holds exactly the failed
\* checks in the order they ran, and no failure of a check leaves
\* validate_packages as an exception.
C1_AllChecksRunNothingEscapes ==
    /\ exc \notin {"KeyError", RAISES}
    /\ \A p \in DOMAIN errors : errors[p] = FailedResults(calls, p)
    /\ pc = "append" => CurrentChecks = ApplicableChecks(tmp_meta)

\* C2: a record that lacks project_home or documentation_home gets the schema
\* violation recorded and validate_packages does not raise on it.
MissingRequired(meta) == meta.project_home = NoField \/ meta.documentation_home = NoField
C2_MissingRequiredFieldDoesNotRaise ==
    (pkg_id \in DOMAIN errors /\ MissingRequired(tmp_meta)) =>
        /\ exc # "KeyError"
        /\ \E i \in 1..Len(errors[pkg_id]) : errors[pkg_id][i] = SchemaViolation

\* C3 as stated: of two calls of check_and_register with the same URL on one
\* LinkChecker, only the first sends a probe and the second returns a
\* duplicate-link error.
C3_SecondCallNeverProbes ==
    \A i, j \in 1..Len(calls) :
        (i < j /\ calls[i].validator \in LinkCheckers /\ SameTarget(calls[i], calls[j])) =>
            /\ calls[i].requests = 1
            /\ calls[j].requests = 0
            /\ calls[j].ret.kind = "DuplicateLink"

\* C3 amended: once a call of check_and_register with a URL has had its probe
\* answered OK, every later call with that URL on the same LinkChecker sends
\* no probe and returns a duplicate-link error, so the two calls together
\* sent exactly one probe.
C3_SecondCallAfterSuccessNeverProbes ==
    \A i, j \in 1..Len(calls) :
        (i < j /\ calls[i].validator \in LinkCheckers /\ SameTarget(calls[i], calls[j])
           /\ Succeeded(calls[i])) =>
            /\ calls[j].requests = 0
            /\ calls[j].ret.kind = "DuplicateLink"
            /\ calls[j].ret.arg = calls[i].arg
            /\ calls[i].requests + calls[j].requests = 1
C3_Witness ==
    \E i, j \in 1..Len(calls) :
        /\ i < j /\ calls[i].validator \in LinkCheckers /\ SameTarget(calls[i], calls[j])
        /\ Succeeded(calls[i]) /\ calls[j].ret.kind = "DuplicateLink"

\* C4: a link check returns a duplicate-link error exactly when an earlier
\* check of the same category registered the same URL: the second package
\* declaring a URL that the first registered in that category gets the error,
\* and a URL registered in another category never causes one.
C4_DuplicateOnlyWithinCategory ==
    \A j \in 1..Len(calls) :
        calls[j].validator \in LinkCheckers =>
            (calls[j].ret.kind = "DuplicateLink"
               <=> \E i \in 1..(j - 1) : SameTarget(calls[i], calls[j]) /\ Succeeded(calls[i]))
C4_Witness ==
    \E i, j, k \in 1..Len(calls) :
        /\ i < j /\ j < k
        /\ calls[i].validator = "home" /\ Succeeded(calls[i])
        /\ calls[j].validator \in {"docs", "tutorials"} /\ calls[j].arg = calls[i].arg
        /\ Succeeded(calls[j])
        /\ calls[k].validator = "home" /\ calls[k].arg = calls[i].arg
        /\ calls[k].context # calls[i].context
        /\ calls[k].ret.kind = "DuplicateLink"

\* validate_packages has returned to main
Returned == pc = "make_output" \/ make_output_calls > 0 \/ exc = "SystemExit(1)"

\* C5 as stated: the run ends normally with make_output invoked if and only
\* if no package has an error; with an error main exits with failure status
\* and make_output is never invoked.
C5_NormalExitIffNoErrors ==
    (Returned /\ pc \in {"exit", "raised"}) =>
        /\ (make_output_calls = 1 /\ pc = "exit" /\ exc = "none") <=> ~AnyErrors
        /\ AnyErrors => (exc = "SystemExit(1)" /\ make_output_calls = 0)

\* C5 amended: make_output is invoked if and only if no package has an error;
\* with an error main exits with failure status and make_output is never
\* invoked; once invoked, the run ends normally unless make_output itself
\* raises (FileExistsError from mkdir, OSError from the copy of an asset).
C5_MakeOutputIffNoErrors ==
    /\ make_output_calls <= 1
    /\ ~Returned => make_output_calls = 0
    /\ Returned => ((pc = "make_output" \/ make_output_calls = 1) <=> ~AnyErrors)
    /\ (Returned /\ AnyErrors) =>
          (pc = "exit" /\ exc = "SystemExit(1)" /\ make_output_calls = 0)
    /\ make_output_calls = 1 =>
          \/ pc = "exit" /\ exc = "none"
          \/ pc = "raised" /\ exc \in {"FileExistsError", "OSError"}
\* one valid package, one whose documentation_home is unreachable: run failed
C5_Witness ==
    /\ pc = "exit" /\ exc = "SystemExit(1)" /\ make_output_calls = 0
    /\ DOMAIN errors = {1, 2}
    /\ \E p, q \in DOMAIN errors :
         /\ errors[p] = <<>>
         /\ Len(errors[q]) = 1 /\ errors[q][1].kind = "UnreachableLink"
         /\ \E i \in 1..Len(calls) : calls[i].validator = "docs" /\ calls[i].ret = errors[q][1]

\* C6: when a package has an error the run leaves nothing behind: nothing on
\* stdout, no packages.json, no asset, and no output directory.
C6_NoOutputAtAllOnFailure ==
    exc = "SystemExit(1)" =>
        /\ stdout = <<>>
        /\ disk.entries = {} /\ disk.json = <<>>
        /\ argv.outdir => ~disk.exists
\* what does hold: nothing printed, nothing inside the output root
C6_Witness ==
    exc = "SystemExit(1)" /\ argv.outdir /\ disk.exists /\ disk.entries = {} /\ stdout = <<>>

\* C7: a call of validate_usernames sends at most one query, none if every
\* given login is already validated, and otherwise one for exactly the given
\* logins not yet validated; a reply that is not OK or carries errors gives
\* one ValidationError and leaves validated_users alone; an OK reply without
\* errors gives no error and adds the whole batch.
C7_ValidateUsernamesStep ==
    (Len(calls') = Len(calls) + 1 /\ Last(calls').validator = "github") =>
        LET c == Last(calls')
            pending == c.users \ github_validator IN
        /\ c.requests <= 1
        /\ c.requests = 1 <=> pending # {}
        /\ c.requests = 1 => c.query = pending
        /\ c.requests = 0 => (c.ret = None /\ github_validator' = github_validator)
        /\ (c.requests = 1 /\ ~c.raised /\ (c.reply.status_code # OK \/ c.reply.errors)) =>
              /\ c.ret.kind \in {"GitHubCheckFailed", "GitHubErrors"}
              /\ c.ret.users = pending
              /\ github_validator' = github_validator
        /\ (c.requests = 1 /\ ~c.raised /\ c.reply.status_code = OK /\ ~c.reply.errors) =>
              /\ c.ret = None
              /\ github_validator' = github_validator \cup pending
C7_ValidateUsernames == [][C7_ValidateUsernamesStep]_vars
C7_Witness ==
    \E i, j \in 1..Len(calls) :
        /\ i < j /\ calls[i].validator = "github" /\ calls[j].validator = "github"
        /\ Succeeded(calls[i]) /\ calls[i].query \subseteq calls[j].users
        /\ calls[j].requests = 1 /\ calls[j].reply.errors
        /\ calls[j].ret.kind = "GitHubErrors"
        /\ github_validator = calls[i].query

GitHubQueries == {i \in 1..Len(calls) : calls[i].validator = "github" /\ calls[i].requests = 1}
\* The logins confirmed by the queries answered before call j.
ConfirmedBefore(j) ==
    UNION {calls[i].query : i \in {k \in 1..(j - 1) :
                                     calls[k].validator = "github" /\ Succeeded(calls[k])}}

Looked(v) == {i \in 1..Len(calls) : calls[i].validator = v /\ Succeeded(calls[i])}

\* C9: an identifier a validator has confirmed is validated again without a
\* request and without an error, and each validator's set holds exactly the
\* identifiers a lookup of this run confirmed.
C9_ConfirmedIdentifiersAreCached ==
    /\ \A i, j \in 1..Len(calls) :
         (i < j /\ calls[i].validator \in NameValidators /\ SameTarget(calls[i], calls[j])
            /\ Succeeded(calls[i])) =>
             (calls[j].requests = 0 /\ calls[j].ret = None)
    /\ \A j \in 1..Len(calls) :
         calls[j].validator = "github" =>
             /\ calls[j].query \cap ConfirmedBefore(j) = {}
             /\ calls[j].users \subseteq ConfirmedBefore(j) =>
                   (calls[j].requests = 0 /\ calls[j].ret = None)
    /\ github_validator = ConfirmedBefore(Len(calls) + 1)
    /\ pypi_validator = {calls[i].arg : i \in Looked("pypi")}
    /\ conda_validator = {calls[i].spec : i \in Looked("conda")}
    /\ cran_validator = {calls[i].arg : i \in Looked("cran")}
C9_Witness ==
    \E i, j \in 1..Len(calls) :
        /\ i < j /\ calls[i].validator = "conda" /\ SameTarget(calls[i], calls[j])
        /\ calls[i].context # calls[j].context
        /\ Succeeded(calls[i]) /\ calls[j].requests = 0 /\ calls[j].ret = None
        /\ conda_validator = {calls[i].spec}

NotFoundKind(v) == IF v = "pypi" THEN "PyPINotFound" ELSE "CRANNotFound"
CheckFailedKind(v) == IF v = "pypi" THEN "PyPICheckFailed" ELSE "CRANCheckFailed"
\* call j is the next call after i on the same validator for the same name
NextSame(i, j) ==
    /\ i < j /\ SameTarget(calls[i], calls[j])
    /\ \A k \in (i + 1)..(j - 1) : ~SameTarget(calls[i], calls[k])

\* C10: a PyPI or CRAN lookup answered 404 gives the does-not-exist error, one
\* answered with another status than 200 gives the failed-to-validate error
\* with that status; after either the name is not cached and the next
\* validation of it sends a request again.
C10_NotFoundVersusCheckFailed ==
    \A i \in 1..Len(calls) :
        (calls[i].validator \in {"pypi", "cran"} /\ calls[i].requests = 1 /\ ~calls[i].raised) =>
            /\ calls[i].reply.status_code = NOT_FOUND =>
                  /\ calls[i].ret.kind = NotFoundKind(calls[i].validator)
                  /\ calls[i].ret.arg = calls[i].arg
            /\ calls[i].reply.status_code \notin {OK, NOT_FOUND} =>
                  /\ calls[i].ret.kind = CheckFailedKind(calls[i].validator)
                  /\ calls[i].ret.arg = calls[i].arg
                  /\ calls[i].ret.status = calls[i].reply.status_code
            /\ calls[i].reply.status_code # OK =>
                  \A j \in 1..Len(calls) : NextSame(i, j) => calls[j].requests = 1
C10_Witness ==
    \E i, j \in 1..Len(calls) :
        /\ calls[i].validator = "pypi" /\ NextSame(i, j)
        /\ calls[i].ret.kind = "PyPINotFound"
        /\ calls[j].requests = 1
        /\ calls[j].ret.kind = "PyPICheckFailed" /\ calls[j].ret.status = SERVER_ERROR
        /\ pypi_validator = {}

\* The spec holds "::" somewhere.
Wellformed(spec) == \E k \in 1..Len(spec) : spec[k] = "::"
\* channel and package are what stands before and after the first "::".
SplitAtFirst(spec, channel, package) ==
    /\ spec = channel \o <<"::">> \o package
    /\ \A k \in 1..Len(channel) : channel[k] # "::"

\* C11: CondaValidator.validate_package with a spec that holds no "::"
\* returns the malformed-identifier error, sends no request and leaves the
\* validated set as it was; with a spec that holds "::" (and is not yet in
\* the validated set) it sends exactly one request, for the channel before
\* and the package after the first "::".
C11_CondaStep ==
    (calls' # calls /\ Last(calls').validator = "conda") =>
        LET c == Last(calls') IN
        IF ~Wellformed(c.spec)
        THEN /\ c.requests = 0
             /\ c.ret.kind = "CondaMalformed" /\ c.ret.spec = c.spec
             /\ conda_validator' = conda_validator
        ELSE c.spec \notin conda_validator =>
                /\ c.requests = 1
                /\ SplitAtFirst(c.spec, c.target.channel, c.target.package_name)
FilesOf(seq) == {seq[i] : i \in DOMAIN seq}
SameRegistry(a, b) == Len(a) = Len(b) /\ FilesOf(a) = FilesOf(b)
\* Ids never decrease along the sequence.
Ascending(seq) == \A i, j \in DOMAIN seq : i < j => seq[i].name <= seq[j].name
\* Every duplicate-link error is on a package whose id is not below the id
\* of the package that registered the URL.
DuplicateOnGreaterId ==
    \A i, j \in 1..Len(calls) :
        (i < j /\ calls[i].validator \in LinkCheckers /\ SameTarget(calls[i], calls[j])
           /\ Succeeded(calls[i]) /\ calls[j].ret.kind = "DuplicateLink") =>
            calls[i].context <= calls[j].context

\* C13: the order in which validate_packages visits the meta.yaml files is
\* ascending in the package id and is the same for every order in which the
\* file system can report the files of the registry, so that the same
\* registry and the same replies give the same error map; a duplicate-link
\* error lands on the package with the greater id.
C13_VisitStep ==
    /\ (pc = "main" /\ pc' = "loop") =>
          /\ Ascending(files')
          /\ \A order \in Discoveries :
                SameRegistry(order, files') => sorted(order) = files'
    /\ DuplicateOnGreaterId'
C13_OrderIndependentOfDiscovery == [][C13_VisitStep]_vars

\* make_output has written packages.json under the output root.
Written == argv.outdir /\ disk.json # <<>>
\* The package id and the file name of a logo path validate_packages left in
\* a record (<registry>/<package id>/<logo as declared>).
LogoPackage(logo) == logo[Len(registry_dir) + 1]
LogoFilename(logo) == logo[Len(logo)]

\* C14: when make_output has written packages.json under an output root,
\* every record that carries a logo appears in it with the logo field
\* <package id>/<file name> and the asset is at that path under the output
\* root; a record without a logo appears unchanged; the records passed in
\* are as they were.
C14_LogoRelocatedToPackageDirectory ==
    Written =>
        LET packages_rel == disk.json[1] IN
        /\ Len(packages_rel) = Len(package_metadata)
        /\ \A i \in 1..Len(package_metadata) :
              LET pkg == package_metadata[i] IN
              IF pkg.logo = <<>>
              THEN packages_rel[i] = pkg
              ELSE /\ packages_rel[i] =
                        [pkg EXCEPT !.logo = <<LogoPackage(pkg.logo), LogoFilename(pkg.logo)>>]
                   /\ packages_rel[i].logo \in disk.entries

\* The directory make_output creates for a record with a logo.
AssetDirectory(pkg) == <<pkg.logo[Len(pkg.logo) - 1]>>
\* Record j is one for which make_output finds its directory already there:
\* left in the output root before the call, or created for an earlier record.
Collides(j) ==
    /\ package_metadata[j].logo # <<>>
    /\ \/ AssetDirectory(package_metadata[j]) \in disk.entries
       \/ \E i \in 1..(j - 1) :
             /\ package_metadata[i].logo # <<>>
             /\ AssetDirectory(package_metadata[i]) = AssetDirectory(package_metadata[j])
Collision == \E j \in 1..Len(package_metadata) : Collides(j)
\* The asset of record i, as make_output names it under the output root.
Asset(pkg) == <<pkg.logo[Len(pkg.logo) - 1], pkg.logo[Len(pkg.logo)]>>

\* C15: when make_output, given an output root, comes to create an asset
\* directory that already exists, it raises FileExistsError, which ends the
\* run; packages.json is not written.  (It does not come to that directory
\* only if the copy of an earlier record's asset has failed, which ends the
\* run as well.)
C15_MakeOutputStep ==
    (pc = "make_output" /\ argv.outdir /\ Collision /\ make_output_calls' # make_output_calls) =>
        /\ pc' = "raised"
        /\ \/ exc' = "FileExistsError"
           \/ /\ exc' = "OSError"
              /\ \E j \in 1..Len(package_metadata) :
                    /\ Collides(j)
                    /\ \E i \in 1..(j - 1) :
                          /\ package_metadata[i].logo # <<>>
                          /\ AssetDirectory(package_metadata[i]) \in disk'.entries
                          /\ Asset(package_metadata[i]) \notin disk'.entries
        /\ disk'.json = <<>> /\ <<"packages.json">> \notin disk'.entries
        /\ stdout' = stdout
C15_ExistingAssetDirectoryIsFatal == [][C15_MakeOutputStep]_vars
C15_Witness ==
    /\ pc = "raised" /\ exc = "FileExistsError" /\ make_output_calls = 1
    /\ Len(package_metadata) = 2
    /\ package_metadata[1].logo = <<>>
    /\ package_metadata[2].logo = <<"packages", "pkg-b", "icon.png">>
    /\ disk.entries = {<<"pkg-b">>}

\* The ids of the packages whose processing has started: each begins with
\* its schema check.
Started == {calls[i].context : i \in {k \in 1..Len(calls) : calls[k].validator = "schema"}}
IsPrefix(a, b) == Len(a) <= Len(b) /\ SubSeq(b, 1, Len(a)) = a

\* C16: the keys of the error map are at every point the ids of the
\* packages whose processing has started; when all checks of a package have
\* run its id is a key, with the empty sequence if no check failed; and an
\* entry once appended stays where it is.
C16_ErrorMapStep ==
    /\ DOMAIN errors' = Started'
    /\ \A p \in DOMAIN errors : p \in DOMAIN errors' /\ IsPrefix(errors[p], errors'[p])
    /\ (pc = "append" /\ pc' = "loop") =>
          /\ pkg_id \in DOMAIN errors'
          /\ errors'[pkg_id] = FailedResults(calls', pkg_id)
C16_ErrorMapKeysAndAppendOnly == [][C16_ErrorMapStep]_vars
C16_Witness ==
    /\ pc = "loop" /\ files = <<>>
    /\ DOMAIN errors = {1, 2}
    /\ errors[1] = <<>> /\ Len(errors[2]) = 1
    /\ Len(package_metadata) = 2

\* What the log says of one entry: the repository exists, is not archived
\* and has .cruft.json in its root; it has moved; its current URL.
Alive(l) == l.gh_repo.found /\ ~l.gh_repo.archived /\ l.gh_repo.contents = "file"
Moved(l) == l.gh_repo.found /\ ~l.gh_repo.archived /\ l.gh_repo.html_url # l.repo.url
InputUrls == {lookups[k].repo.url : k \in 1..Len(lookups)}
\* The entries of the log whose repository is alive, in input order, each
\* with its current URL and its other fields as passed in; a moved one is
\* left out if its current URL is in listed.
RECURSIVE Kept(_, _)
Kept(log, listed) ==
    IF log = <<>> THEN <<>>
    ELSE LET l == Last(log)
             before == Kept(SubSeq(log, 1, Len(log) - 1), listed) IN
         IF Alive(l) /\ ~(Moved(l) /\ l.gh_repo.html_url \in listed)
         THEN Append(before, [l.repo EXCEPT !.url = l.gh_repo.html_url])
         ELSE before

PairwiseDistinctUrls(list) ==
    \A i, j \in DOMAIN list : i # j => list[i].url # list[j].url
Inputs == [k \in 1..Len(lookups) |-> lookups[k].repo]

\* C20: called with a list whose URLs are pairwise distinct, filter_repos
\* returns a list whose URLs are pairwise distinct, also when repositories
\* have moved.
C20_ReturnedUrlsPairwiseDistinct ==
    (pc = "returned" /\ PairwiseDistinctUrls(Inputs)) => PairwiseDistinctUrls(filtered_repos)

\* C18: a call of check_and_register adds its URL to known_links exactly
\* when its probe was answered OK and leaves known_links as it was when it
\* returns an error; a URL that is not in known_links is probed and is not
\* reported as duplicate, one that is in known_links is reported as duplicate
\* without a probe; and no URL gets a success result twice on one instance.
C18_RegisterStep ==
    (calls' # calls /\ Last(calls').validator = "home") =>
        LET c == Last(calls') IN
        /\ link_checker_home' =
              IF Succeeded(c) THEN link_checker_home \cup {c.arg} ELSE link_checker_home
        /\ c.ret.kind \in {"DuplicateLink", "UnreachableLink"} =>
              link_checker_home' = link_checker_home
        /\ IF c.arg \in link_checker_home
           THEN c.requests = 0 /\ c.ret.kind = "DuplicateLink"
           ELSE c.requests = 1 /\ c.ret.kind # "DuplicateLink"
        /\ \A i \in 1..Len(calls) :
              (SameTarget(calls[i], c) /\ Succeeded(calls[i])) => ~Succeeded(c)
C18_RegisteredOnlyOnSuccess == [][C18_RegisterStep]_vars
C18_Witness ==
    /\ Len(calls) = 2
    /\ calls[1].validator = "home" /\ SameTarget(calls[1], calls[2])
    /\ calls[1].ret.kind = "UnreachableLink" /\ calls[1].ret.status = NOT_FOUND
    /\ calls[2].requests = 1 /\ Succeeded(calls[2])
    /\ link_checker_home = {calls[2].arg}

\* The request of call i timed out.
TimedOut(i) == calls[i].requests = 1 /\ calls[i].reply.raised
InList(list, x) == \E k \in DOMAIN list : list[k] = x

\* C19: a request that stalls or times out makes its check return a
\* ValidationError, which is recorded for the package, and the run goes on:
\* it does not end with the exception of the request.
C19_TimeoutFailsClosed ==
    /\ exc # RAISES
    /\ \A i \in 1..Len(calls) :
          TimedOut(i) =>
              /\ ~calls[i].raised
              /\ calls[i].ret # None
              /\ calls[i].context \in DOMAIN errors
              /\ InList(errors[calls[i].context], calls[i].ret)

\* C21: make_output with an output root writes packages.json only when the
\* directory and the copy of every record with a logo are in place; when
\* creating a directory or copying an asset fails the call raises and
\* packages.json is not written, whatever was copied for earlier records.
C21_MakeOutputStep ==
    (pc = "make_output" /\ argv.outdir /\ make_output_calls' # make_output_calls) =>
        /\ pc' \in {"exit", "raised"}
        /\ pc' = "exit" =>
              /\ Written' /\ <<"packages.json">> \in disk'.entries
              /\ \A i \in Copied :
                    /\ AssetDirectory(package_metadata[i]) \in disk'.entries
                    /\ Asset(package_metadata[i]) \in disk'.entries
        /\ pc' = "raised" =>
              /\ exc' \in {"FileExistsError", "OSError"}
              /\ ~Written' /\ <<"packages.json">> \notin disk'.entries
              /\ Copied # {}
C21_JsonOnlyAfterAllAssets == [][C21_MakeOutputStep]_vars
C21_Witness ==
    /\ pc = "raised" /\ exc = "OSError" /\ make_output_calls = 1
    /\ Len(package_metadata) = 2
    /\ package_metadata[1].logo = <<"packages", "pkg-a", "icon.png">>
    /\ package_metadata[2].logo = <<"packages", "pkg-b", "icon.png">>
    /\ disk.entries = {<<"pkg-a">>, <<"pkg-a", "icon.png">>, <<"pkg-b">>}
    /\ disk.json = <<>>
====
